---- MODULE Spec2Model ----
(***************************************************************************)
(* Model of skll/experiments/output.py: the result aggregation functions   *)
(* _write_summary_file and _write_learning_curve_file, the score reshape   *)
(* of generate_learning_curve_plots and _compute_ylimits_for_featureset.   *)
(*                                                                         *)
(* Strings that the code takes apart (featureset names, the serialised     *)
(* feature list) are sequences of tokens; the empty string is <<>>.        *)
(* Scores are fixed-point numbers in hundredths (100 is 1.0).              *)
(***************************************************************************)
EXTENDS Integers, Sequences, FiniteSets, TLC

VARIABLES fn, result_json_paths, ablation, pc, i, learner_result_dicts,
          all_features, header, output_file, logged, exc, j, k,
          df, metrics, df_score_melted, ylimits

vars == <<fn, result_json_paths, ablation, pc, i, learner_result_dicts,
          all_features, header, output_file, logged, exc, j, k,
          df, metrics, df_score_melted, ylimits>>

(* ---------------------------- bounds ---------------------------------- *)
MaxPaths == 2
MaxRecs == 2
MaxSizes == 2
MaxRows == 2

(* ------------------------- generic helpers ----------------------------- *)
Range(s) == {s[x] : x \in DOMAIN s}

SeqsUpTo(S, n) == UNION {[1..m -> S] : m \in 0..n}

WithField(d, key, val) ==
    [x \in (DOMAIN d) \cup {key} |-> IF x = key THEN val ELSE d[x]]

WithoutField(d, key) == [x \in (DOMAIN d) \ {key} |-> d[x]]

Max2(a, b) == IF a >= b THEN a ELSE b
Min2(a, b) == IF a <= b THEN a ELSE b
SetMin(S) == CHOOSE x \in S : \A y \in S : x <= y
SetMax(S) == CHOOSE x \in S : \A y \in S : x >= y

(* csv.DictWriter(..., restval="", extrasaction="ignore").writerow(d):    *)
(* one cell per header column, the empty string for a key d lacks, keys   *)
(* of d outside the header dropped.                                        *)
restval == <<>>

(* variant: a column the dictionary lacks gets no cell at all *)
DictRowOmitsMissing(hdr, d) == [h \in Range(hdr) \cap DOMAIN d |-> d[h]]

DictRow(hdr, d) == [h \in Range(hdr) |-> IF h \in DOMAIN d THEN d[h] ELSE restval]

(* ------------------- featureset names and lists ------------------------ *)
Marker == "_minus_"

(* "_minus_" in featureset_name *)
HasMarker(name) == \E x \in DOMAIN name : name[x] = Marker

(* featureset_name.split("_minus_", 1)[0] *)
ParentSet(name) ==
    IF HasMarker(name)
    THEN SubSeq(name, 1, SetMin({x \in DOMAIN name : name[x] = Marker}) - 1)
    ELSE name

(* yaml.load of the serialised feature list "[f1, f2]" *)
yaml_load(s) == SubSeq(s, 2, Len(s) - 1)

(* sorted() over feature names *)
FeatureOrder == <<"f1", "f2">>
SortedFeatures(S) == SelectSeq(FeatureOrder, LAMBDA f : f \in S)

(* json.dumps of a list of strings *)
json_dumps(s) == <<"[">> \o s \o <<"]">>

(* sorted() over column names *)
FieldOrder == <<"ablated_features", "descriptive", "featureset",
                "featureset_name", "result_table", "score">>
SortedFields(S) == SelectSeq(FieldOrder, LAMBDA f : f \in S)

(* ------------------------ summary inputs ------------------------------- *)
RecParent == [featureset_name |-> <<"A">>,
              featureset |-> <<"[", "f1", "f2", "]">>,
              result_table |-> <<"t">>]
RecMinusF1 == [featureset_name |-> <<"A", Marker, "f1">>,
               featureset |-> <<"[", "f2", "]">>,
               score |-> <<"s">>]
RecMinusF2 == [featureset_name |-> <<"A", Marker, "f2">>,
               featureset |-> <<"[", "f1", "]">>,
               descriptive |-> <<"d">>]
RecNoFeatureset == [featureset_name |-> <<"A", Marker, "f1">>]
RecNoName == [featureset |-> <<"[", "f2", "]">>, score |-> <<"s">>]

SummaryRecords == {RecParent, RecMinusF1, RecMinusF2, RecNoFeatureset, RecNoName}

ParentNames == {ParentSet(r.featureset_name) :
                  r \in {q \in SummaryRecords : "featureset_name" \in DOMAIN q}}

(* A path of the input list together with what the file system holds      *)
(* there: nothing, a file that is not JSON, or a JSON array of at most r  *)
(* records.                                                                *)
Files(Records, r) ==
    {[kind |-> "missing"], [kind |-> "malformed"]}
    \cup {[kind |-> "ok", obj |-> o] : o \in SeqsUpTo(Records, r)}

NumRecords(f) == IF f.kind = "ok" THEN Len(f.obj) ELSE 0

(* the path lists of at most n paths that hold at most r records in all *)
RECURSIVE PathLists(_, _, _)
PathLists(Records, n, r) ==
    IF n = 0 THEN {<<>>}
    ELSE {<<>>} \cup
         UNION {{<<f>> \o rest : rest \in PathLists(Records, n - 1, r - NumRecords(f))} :
                  f \in Files(Records, r)}

(* json_path.exists() *)
PathExists(f) == f.kind # "missing"

(* ------------------------ _write_summary_file -------------------------- *)
NextAfterLoad == IF i = Len(result_json_paths) THEN "header" ELSE "load"

Raise(e) ==
    /\ pc' = "raised"
    /\ exc' = e
    /\ UNCHANGED <<fn, result_json_paths, ablation, i, learner_result_dicts,
                   all_features, header, output_file, logged, j, k,
                   df, metrics, df_score_melted, ylimits>>

(* variant: every first record feeds the feature set of its parent *)
IsAblationChildAnyName(abl, name) == abl # 0

(* ablation != 0 and "_minus_" in featureset_name *)
IsAblationChild(abl, name) == abl # 0 /\ HasMarker(name)

(* variant: the missing file is logged and skipped, the run goes on *)
SummaryMissingSkips(p) ==
    /\ logged' = Append(logged, p)
    /\ i' = i + 1
    /\ pc' = NextAfterLoad
    /\ UNCHANGED <<fn, result_json_paths, ablation, learner_result_dicts,
                   all_features, header, output_file, exc, j, k,
                   df, metrics, df_score_melted, ylimits>>

(* the missing-path branch: log the path and return *)
SummaryMissing(p) ==
    /\ logged' = Append(logged, p)
    /\ pc' = "returned"
    /\ UNCHANGED <<fn, result_json_paths, ablation, i, learner_result_dicts,
                   all_features, header, output_file, exc, j, k,
                   df, metrics, df_score_melted, ylimits>>

(* variant: the features of a file replace those collected so far *)
SummaryLoadOverwrites ==
    /\ fn = "summary"
    /\ pc = "load"
    /\ LET f == result_json_paths[i] IN
       IF ~PathExists(f) THEN SummaryMissing(i)
       ELSE IF f.kind = "malformed" THEN Raise("JSONDecodeError")
       ELSE IF f.obj = <<>> THEN Raise("IndexError")
       ELSE IF "featureset_name" \notin DOMAIN f.obj[1] THEN Raise("KeyError")
       ELSE IF /\ IsAblationChild(ablation, f.obj[1].featureset_name)
               /\ "featureset" \notin DOMAIN f.obj[1] THEN Raise("KeyError")
       ELSE
         /\ all_features' =
              IF IsAblationChild(ablation, f.obj[1].featureset_name)
              THEN [all_features EXCEPT
                      ![ParentSet(f.obj[1].featureset_name)] =
                          Range(yaml_load(f.obj[1].featureset))]
              ELSE all_features
         /\ learner_result_dicts' = learner_result_dicts \o f.obj
         /\ i' = i + 1
         /\ pc' = NextAfterLoad
         /\ UNCHANGED <<fn, result_json_paths, ablation, header, output_file,
                        logged, exc, j, k, df, metrics, df_score_melted, ylimits>>

(* one iteration of the loop over result_json_paths *)
SummaryLoad ==
    /\ fn = "summary"
    /\ pc = "load"
    /\ LET f == result_json_paths[i] IN
       IF ~PathExists(f) THEN SummaryMissing(i)
       ELSE IF f.kind = "malformed" THEN Raise("JSONDecodeError")
       ELSE IF f.obj = <<>> THEN Raise("IndexError")
       ELSE IF "featureset_name" \notin DOMAIN f.obj[1] THEN Raise("KeyError")
       ELSE IF /\ IsAblationChild(ablation, f.obj[1].featureset_name)
               /\ "featureset" \notin DOMAIN f.obj[1] THEN Raise("KeyError")
       ELSE
         /\ all_features' =
              IF IsAblationChild(ablation, f.obj[1].featureset_name)
              THEN [all_features EXCEPT
                      ![ParentSet(f.obj[1].featureset_name)] =
                          @ \cup Range(yaml_load(f.obj[1].featureset))]
              ELSE all_features
         /\ learner_result_dicts' = learner_result_dicts \o f.obj
         /\ i' = i + 1
         /\ pc' = NextAfterLoad
         /\ UNCHANGED <<fn, result_json_paths, ablation, header, output_file,
                        logged, exc, j, k, df, metrics, df_score_melted, ylimits>>

(* variant: the derived column is added whatever the ablation depth *)
SummaryHeaderColumnsAlways(first, abl) ==
    SortedFields(((DOMAIN first) \ {"result_table", "descriptive"})
                 \cup {"ablated_features"})

(* header = sorted(set(first.keys()) - {...} [+ ablated_features]) *)
SummaryHeaderColumns(first, abl) ==
    SortedFields(((DOMAIN first) \ {"result_table", "descriptive"})
                 \cup (IF abl # 0 THEN {"ablated_features"} ELSE {}))

SummaryHeader ==
    /\ fn = "summary"
    /\ pc = "header"
    /\ IF learner_result_dicts = <<>> THEN Raise("IndexError")
       ELSE
         /\ header' = SummaryHeaderColumns(learner_result_dicts[1], ablation)
         /\ output_file' = Append(output_file, header')
         /\ pc' = "rows"
         /\ j' = 1
         /\ UNCHANGED <<fn, result_json_paths, ablation, i, learner_result_dicts,
                        all_features, logged, exc, k,
                        df, metrics, df_score_melted, ylimits>>

(* the value stored in lrd["ablated_features"] *)
AblatedFeatures(all, lrd) ==
    LET diff == all[ParentSet(lrd.featureset_name)] \ Range(yaml_load(lrd.featureset))
    IN IF diff = {} THEN <<>> ELSE json_dumps(SortedFeatures(diff))

(* one iteration of the loop over learner_result_dicts *)
SummaryRow ==
    /\ fn = "summary"
    /\ pc = "rows"
    /\ LET lrd == learner_result_dicts[j] IN
       IF "featureset_name" \notin DOMAIN lrd THEN Raise("KeyError")
       ELSE IF ablation # 0 /\ "featureset" \notin DOMAIN lrd THEN Raise("KeyError")
       ELSE
         LET new == IF ablation # 0
                    THEN WithField(lrd, "ablated_features",
                                   AblatedFeatures(all_features, lrd))
                    ELSE lrd
         IN
         /\ learner_result_dicts' = [learner_result_dicts EXCEPT ![j] = new]
         /\ output_file' = Append(output_file, DictRow(header, new))
         /\ j' = j + 1
         /\ pc' = IF j = Len(learner_result_dicts) THEN "done" ELSE "rows"
         /\ UNCHANGED <<fn, result_json_paths, ablation, i, all_features, header,
                        logged, exc, k, df, metrics, df_score_melted, ylimits>>


(* --------------------- learning-curve inputs --------------------------- *)
CurveArrays == <<"computed_curve_train_sizes",
                 "learning_curve_train_scores_means",
                 "learning_curve_test_scores_means",
                 "learning_curve_fit_times_means",
                 "learning_curve_train_scores_stds",
                 "learning_curve_test_scores_stds",
                 "learning_curve_fit_times_stds">>

(* the row fields the zip loop assigns, in the order of CurveArrays *)
CurveFields == <<"training_set_size", "train_score_mean", "test_score_mean",
                 "fit_time_mean", "train_score_std", "test_score_std",
                 "fit_time_std">>

Objectives == <<"acc", "r2">>

(* array number a of a record with n sizes: n distinct values, distinct   *)
(* from the values of every other array                                    *)
CurveArray(a, n) == [x \in 1..n |-> 10 * a + x]

(* a learning-curve record whose seven arrays all have length n *)
Curve(n) ==
    [f \in {"featureset_name", "learner_name", "grid_objective", "version"}
           \cup Range(CurveArrays) |->
        IF f = "featureset_name" THEN <<"A">>
        ELSE IF f = "learner_name" THEN <<"L">>
        ELSE IF f = "grid_objective" THEN <<Objectives[(n % 2) + 1]>>
        ELSE IF f = "version" THEN <<"v">>
        ELSE CurveArray(CHOOSE a \in DOMAIN CurveArrays : CurveArrays[a] = f, n)]

(* the test score means are one element short *)
RecRagged ==
    [Curve(MaxSizes) EXCEPT !["learning_curve_test_scores_means"] =
        SubSeq(@, 1, MaxSizes - 1)]
RecNoArray == WithoutField(Curve(1), "learning_curve_fit_times_stds")
RecNoObjective == WithoutField(Curve(1), "grid_objective")

CurveRecords == {Curve(1), Curve(MaxSizes), RecRagged, RecNoArray, RecNoObjective}

(* --------------------- _write_learning_curve_file ---------------------- *)
LCMissing(p) ==
    /\ logged' = Append(logged, p)
    /\ pc' = "returned"
    /\ UNCHANGED <<fn, result_json_paths, ablation, i, learner_result_dicts,
                   all_features, header, output_file, exc, j, k,
                   df, metrics, df_score_melted, ylimits>>

(* one iteration of the loop over result_json_paths *)
LCLoad ==
    /\ fn = "learning_curve"
    /\ pc = "load"
    /\ LET f == result_json_paths[i] IN
       IF ~PathExists(f) THEN LCMissing(i)
       ELSE IF f.kind = "malformed" THEN Raise("JSONDecodeError")
       ELSE
         /\ learner_result_dicts' = learner_result_dicts \o f.obj
         /\ i' = i + 1
         /\ pc' = NextAfterLoad
         /\ UNCHANGED <<fn, result_json_paths, ablation, all_features, header,
                        output_file, logged, exc, j, k,
                        df, metrics, df_score_melted, ylimits>>

LCHeaderColumns ==
    <<"featureset_name", "learner_name", "metric", "train_set_name",
      "training_set_size", "train_score_mean", "test_score_mean",
      "fit_time_mean", "train_score_std", "test_score_std", "fit_time_std",
      "scikit_learn_version", "version">>

LCHeader ==
    /\ fn = "learning_curve"
    /\ pc = "header"
    /\ header' = LCHeaderColumns
    /\ output_file' = Append(output_file, header')
    /\ j' = 1
    /\ pc' = IF learner_result_dicts = <<>> THEN "done" ELSE "lc_record"
    /\ UNCHANGED <<fn, result_json_paths, ablation, i, learner_result_dicts,
                   all_features, logged, exc, k,
                   df, metrics, df_score_melted, ylimits>>

(* zip(...) yields a k-th tuple iff every one of its arguments has one *)
ZipHasNext(lrd, n) == \A a \in DOMAIN CurveArrays : n <= Len(lrd[CurveArrays[a]])

(* variant: the train and test score means are assigned crosswise *)
CurveRowSwapped(lrd, n) ==
    [f \in (DOMAIN lrd) \cup Range(CurveFields) |->
        IF f = "train_score_mean" THEN lrd["learning_curve_test_scores_means"][n]
        ELSE IF f = "test_score_mean" THEN lrd["learning_curve_train_scores_means"][n]
        ELSE IF f \in Range(CurveFields)
        THEN lrd[CurveArrays[CHOOSE a \in DOMAIN CurveFields : CurveFields[a] = f]][n]
        ELSE lrd[f]]

(* the seven assignments lrd[...] = ... of the zip loop body *)
CurveRow(lrd, n) ==
    [f \in (DOMAIN lrd) \cup Range(CurveFields) |->
        IF f \in Range(CurveFields)
        THEN lrd[CurveArrays[CHOOSE a \in DOMAIN CurveFields : CurveFields[a] = f]][n]
        ELSE lrd[f]]

NextRecord == IF j = Len(learner_result_dicts) THEN "done" ELSE "lc_record"

(* top of the loop over learner_result_dicts: the array lookups and the   *)
(* rename of grid_objective                                                *)
LCRecord ==
    /\ fn = "learning_curve"
    /\ pc = "lc_record"
    /\ LET lrd == learner_result_dicts[j] IN
       IF \E a \in DOMAIN CurveArrays : CurveArrays[a] \notin DOMAIN lrd
       THEN Raise("KeyError")
       ELSE IF "grid_objective" \notin DOMAIN lrd THEN Raise("KeyError")
       ELSE
         /\ learner_result_dicts' =
              [learner_result_dicts EXCEPT
                 ![j] = WithField(lrd, "metric", lrd.grid_objective)]
         /\ k' = 1
         /\ IF ZipHasNext(lrd, 1)
            THEN pc' = "lc_row" /\ j' = j
            ELSE pc' = NextRecord /\ j' = j + 1
         /\ UNCHANGED <<fn, result_json_paths, ablation, i, all_features, header,
                        output_file, logged, exc,
                        df, metrics, df_score_melted, ylimits>>

(* one iteration of the zip loop *)
LCRow ==
    /\ fn = "learning_curve"
    /\ pc = "lc_row"
    /\ LET new == CurveRow(learner_result_dicts[j], k) IN
         /\ learner_result_dicts' = [learner_result_dicts EXCEPT ![j] = new]
         /\ output_file' = Append(output_file, DictRow(header, new))
         /\ IF ZipHasNext(new, k + 1)
            THEN k' = k + 1 /\ pc' = "lc_row" /\ j' = j
            ELSE k' = 1 /\ pc' = NextRecord /\ j' = j + 1
         /\ UNCHANGED <<fn, result_json_paths, ablation, i, all_features, header,
                        logged, exc, df, metrics, df_score_melted, ylimits>>


(* ------------------- generate_learning_curve_plots --------------------- *)
(* rows of the learning-curve TSV as read back by pd.read_csv; scores in  *)
(* hundredths                                                              *)
(* train mean, test mean, train std, test std of a wide row *)
Scores == {<<50, 93, 5, 5>>, <<-97, -2, 0, 0>>, <<50, -2, 5, 7>>, <<0, 0, 0, 0>>}
Sizes == {10, 20}
MetricNames == {"acc", "r2"}

WideRows ==
    {[featureset_name |-> "A", learner_name |-> "L", metric |-> m,
      training_set_size |-> n, train_score_mean |-> s[1], test_score_mean |-> s[2],
      train_score_std |-> s[3], test_score_std |-> s[4], fit_time_mean |-> 1] :
        m \in MetricNames, n \in Sizes, s \in Scores}

NotScoreColumns == {"train_set_name", "fit_time_mean", "fit_time_std",
                    "scikit_learn_version", "version"}

(* df[score_columns] *)
ScoreFrame(wide) ==
    [x \in DOMAIN wide |->
        [c \in (DOMAIN wide[x]) \ NotScoreColumns |-> wide[x][c]]]

ValueVars == <<"train_score_mean", "test_score_mean">>

(* one long row: the id columns of a wide row, plus variable and value *)
MeltRow(row, var) ==
    [c \in ((DOMAIN row) \ Range(ValueVars)) \cup {"variable", "value"} |->
        IF c = "variable" THEN var
        ELSE IF c = "value" THEN row[var]
        ELSE row[c]]

(* variant: every long row takes its value from the first value column *)
MeltFirstColumn(frame) ==
    [x \in 1..(Len(ValueVars) * Len(frame)) |->
        [MeltRow(frame[((x - 1) % Len(frame)) + 1],
                 ValueVars[((x - 1) \div Len(frame)) + 1])
            EXCEPT !.value = frame[((x - 1) % Len(frame)) + 1][ValueVars[1]]]]

(* pd.melt(frame, id_vars=<all but the two mean columns>): the rows of    *)
(* the first value column in frame order, then those of the second         *)
Melt(frame) ==
    [x \in 1..(Len(ValueVars) * Len(frame)) |->
        MeltRow(frame[((x - 1) % Len(frame)) + 1],
                ValueVars[((x - 1) \div Len(frame)) + 1])]

MeltScores ==
    /\ fn = "plots"
    /\ pc = "melt"
    /\ df_score_melted' = Melt(ScoreFrame(df))
    /\ pc' = "ylimits"
    /\ UNCHANGED <<fn, result_json_paths, ablation, i, learner_result_dicts,
                   all_features, header, output_file, logged, exc, j, k,
                   df, metrics, ylimits>>

(* ------------------ _compute_ylimits_for_featureset -------------------- *)
(* the 0.1 and the 0.05 of the limits, in hundredths *)
Buffer == 10
Margin == 5

(* math.floor and math.ceil on hundredths *)
Floor(x) == (x \div 100) * 100
Ceil(x) == -(((-x) \div 100) * 100)

(* value -/+ std over the train rows and the test rows of a metric *)
MetricRows(frame, var, metric) ==
    {x \in DOMAIN frame : frame[x].variable = var /\ frame[x].metric = metric}

ValuesLower(frame, metric) ==
    {frame[x].value - frame[x].train_score_std :
        x \in MetricRows(frame, "train_score_mean", metric)}
    \cup {frame[x].value - frame[x].test_score_std :
        x \in MetricRows(frame, "test_score_mean", metric)}

ValuesUpper(frame, metric) ==
    {frame[x].value + frame[x].train_score_std :
        x \in MetricRows(frame, "train_score_mean", metric)}
    \cup {frame[x].value + frame[x].test_score_std :
        x \in MetricRows(frame, "test_score_mean", metric)}

(* variant: the lower limit is padded whatever the sign of the minimum *)
LowerLimitAlwaysPadded(min_score) ==
    Max2(min_score - Buffer, Floor(min_score) - Margin)

LowerLimit(min_score) ==
    IF min_score < 0
    THEN Max2(min_score - Buffer, Floor(min_score) - Margin)
    ELSE 0

(* variant: the upper limit is capped at the floor of the maximum *)
UpperLimitFloor(max_score) ==
    IF max_score > 0
    THEN Min2(max_score + Buffer, Floor(max_score) + Margin)
    ELSE 0

UpperLimit(max_score) ==
    IF max_score > 0
    THEN Min2(max_score + Buffer, Ceil(max_score) + Margin)
    ELSE 0

(* the dictionary the function returns when no np.min / np.max raises *)
Ylimits(frame, ms) ==
    [m \in Range(ms) |->
        <<LowerLimit(SetMin(ValuesLower(frame, m))),
          UpperLimit(SetMax(ValuesUpper(frame, m)))>>]

(* variant: a metric without rows gets the bounds (0, 0) instead of the   *)
(* error of np.min                                                         *)
ComputeYlimitsDefaults ==
    /\ fn = "plots"
    /\ pc = "ylimits"
    /\ ylimits' =
          Append(ylimits,
                 [m \in Range(metrics) |->
                     IF ValuesLower(df_score_melted, m) = {}
                     THEN <<0, 0>>
                     ELSE Ylimits(df_score_melted, <<m>>)[m]])
    /\ pc' = IF Len(ylimits) = 0 THEN "ylimits" ELSE "done"
    /\ UNCHANGED <<fn, result_json_paths, ablation, i, learner_result_dicts,
                   all_features, header, output_file, logged, exc, j, k,
                   df, metrics, df_score_melted>>

(* one call of the function on the melted frame; np.min of an empty       *)
(* array raises ValueError.  The frame is only read.                       *)
ComputeYlimits ==
    /\ fn = "plots"
    /\ pc = "ylimits"
    /\ IF \E x \in DOMAIN metrics : ValuesLower(df_score_melted, metrics[x]) = {}
       THEN Raise("ValueError")
       ELSE
         /\ ylimits' = Append(ylimits, Ylimits(df_score_melted, metrics))
         /\ pc' = IF Len(ylimits) = 0 THEN "ylimits" ELSE "done"
         /\ UNCHANGED <<fn, result_json_paths, ablation, i, learner_result_dicts,
                        all_features, header, output_file, logged, exc, j, k,
                        df, metrics, df_score_melted>>

(* ----------------------------- Init ------------------------------------ *)
InitCommon ==
    /\ i = 1
    /\ j = 1
    /\ k = 1
    /\ learner_result_dicts = <<>>
    /\ all_features = [p \in ParentNames |-> {}]
    /\ header = <<>>
    /\ output_file = <<>>
    /\ logged = <<>>
    /\ exc = "none"
    /\ df_score_melted = <<>>
    /\ ylimits = <<>>

InitSummary ==
    /\ fn = "summary"
    /\ result_json_paths \in PathLists(SummaryRecords, MaxPaths, MaxRecs)
    /\ ablation \in {0, 1}
    /\ pc = IF result_json_paths = <<>> THEN "header" ELSE "load"
    /\ df = <<>>
    /\ metrics = <<>>
    /\ InitCommon

InitLearningCurve ==
    /\ fn = "learning_curve"
    /\ result_json_paths \in PathLists(CurveRecords, MaxPaths, MaxRecs)
    /\ ablation = 0
    /\ pc = IF result_json_paths = <<>> THEN "header" ELSE "load"
    /\ df = <<>>
    /\ metrics = <<>>
    /\ InitCommon

InitPlots ==
    /\ fn = "plots"
    /\ result_json_paths = <<>>
    /\ ablation = 0
    /\ pc = "melt"
    /\ df \in SeqsUpTo(WideRows, MaxRows)
    /\ metrics \in {<<"acc">>, <<"r2">>, <<"acc", "r2">>}
    /\ InitCommon

Init == InitSummary \/ InitLearningCurve \/ InitPlots

Next ==
    \/ SummaryLoad
    \/ SummaryHeader
    \/ SummaryRow
    \/ LCLoad
    \/ LCHeader
    \/ LCRecord
    \/ LCRow
    \/ MeltScores
    \/ ComputeYlimits

Spec == Init /\ [][Next]_vars

(* ======================= properties of the code ======================== *)
Aggregating == fn \in {"summary", "learning_curve"}
Terminated == pc \in {"returned", "raised", "done"}

MissingPaths ==
    {x \in DOMAIN result_json_paths : result_json_paths[x].kind = "missing"}

(* the records of all input files, files in path order, records in file   *)
(* order, as they are on disk                                              *)
RECURSIVE Flatten(_)
Flatten(paths) ==
    IF paths = <<>> THEN <<>>
    ELSE (IF Head(paths).kind = "ok" THEN Head(paths).obj ELSE <<>>)
         \o Flatten(Tail(paths))

InputRecords == Flatten(result_json_paths)

(* the data rows written so far (the lines after the header) *)
Rows == SubSeq(output_file, 2, Len(output_file))

(* C1: when some path of the list does not exist, _write_summary_file and *)
(* _write_learning_curve_file never write anything to the output file (no *)
(* header, no row), never complete as a normal run, and, at whatever      *)
(* position the first missing path stands, end by reporting exactly that  *)
(* path; the one way not to reach the report is the load error of an      *)
(* earlier file, which is raised with the output still empty.              *)
C1_MissingPathWritesNothing ==
    (Aggregating /\ MissingPaths # {}) =>
        /\ output_file = <<>>
        /\ pc # "done"
        /\ (Terminated /\ exc = "none") =>
              (pc = "returned" /\ logged = <<SetMin(MissingPaths)>>)
        /\ pc = "raised" => (logged = <<>> /\ i < SetMin(MissingPaths))

C1_Witness ==
    /\ fn = "summary"
    /\ pc = "returned"
    /\ i = 2
    /\ learner_result_dicts # <<>>
    /\ logged = <<2>>

(* the features of all ablation children of a parent, over every record *)
ChildFeatures(parent) ==
    UNION {Range(yaml_load(r.featureset)) :
             r \in {q \in Range(InputRecords) :
                      /\ HasMarker(q.featureset_name)
                      /\ ParentSet(q.featureset_name) = parent}}

ExpectedAblated(rec) ==
    LET diff == ChildFeatures(ParentSet(rec.featureset_name))
                  \ Range(yaml_load(rec.featureset))
    IN IF diff = {} THEN <<>> ELSE json_dumps(SortedFeatures(diff))

(* C2: in a completed ablation run of _write_summary_file, the            *)
(* ablated_features of every row whose featureset name carries the        *)
(* ablation marker is the sorted JSON array of (the features of all       *)
(* ablation children of its parent, over every record of every file)      *)
(* minus (the row's own features), and the empty string when that is      *)
(* empty.  The code fails this: it reads only the first record of a file. *)
C2_AblatedFromEveryRecord ==
    (fn = "summary" /\ ablation # 0 /\ pc = "done") =>
        \A x \in DOMAIN InputRecords :
            HasMarker(InputRecords[x].featureset_name) =>
                Rows[x].ablated_features = ExpectedAblated(InputRecords[x])

IsSpecExample ==
    /\ fn = "summary"
    /\ ablation # 0
    /\ pc = "done"
    /\ InputRecords \in {<<RecParent, RecMinusF1>>, <<RecMinusF1, RecParent>>}

ExampleRow(rec) == Rows[CHOOSE x \in DOMAIN InputRecords : InputRecords[x] = rec]

C4_NoAblatedColumnWithoutAblation ==
    (fn = "summary" /\ ablation = 0) =>
        /\ "ablated_features" \notin Range(header)
        /\ output_file # <<>> => "ablated_features" \notin Range(output_file[1])
        /\ \A x \in DOMAIN Rows : "ablated_features" \notin DOMAIN Rows[x]
        /\ \A x \in DOMAIN learner_result_dicts :
              "ablated_features" \notin DOMAIN learner_result_dicts[x]

C4_Witness ==
    /\ fn = "summary"
    /\ ablation = 0
    /\ pc = "done"
    /\ \E x \in DOMAIN InputRecords : HasMarker(InputRecords[x].featureset_name)

(* C5: the header written by _write_summary_file is the sorted set of the *)
(* field names of all loaded records, without result_table and            *)
(* descriptive, with ablated_features when ablation is on.  The code      *)
(* fails this: it takes the field names of the first record only.          *)
C5_HeaderFromAllRecords ==
    (fn = "summary" /\ pc \in {"rows", "done"}) =>
        output_file[1] =
            SortedFields(((UNION {DOMAIN InputRecords[x] : x \in DOMAIN InputRecords})
                            \ {"result_table", "descriptive"})
                         \cup (IF ablation # 0 THEN {"ablated_features"} ELSE {}))

(* ---- learning-curve rows ---- *)
EqualLengths(rec) ==
    /\ \A a \in DOMAIN CurveArrays : CurveArrays[a] \in DOMAIN rec
    /\ \A a, b \in DOMAIN CurveArrays :
          Len(rec[CurveArrays[a]]) = Len(rec[CurveArrays[b]])

IsRagged(rec) ==
    /\ \A a \in DOMAIN CurveArrays : CurveArrays[a] \in DOMAIN rec
    /\ ~EqualLengths(rec)

(* the number of rows a completed run holds for a record: the length of   *)
(* its shortest array                                                      *)
RowCount(rec) == SetMin({Len(rec[CurveArrays[a]]) : a \in DOMAIN CurveArrays})

RECURSIVE RowsBefore(_)
RowsBefore(x) ==
    IF x = 1 THEN 0 ELSE RowsBefore(x - 1) + RowCount(InputRecords[x - 1])

(* the row of index n of a record, written out column by column *)
PointRow(rec, n) ==
    [featureset_name |-> rec.featureset_name,
     learner_name |-> rec.learner_name,
     metric |-> rec.grid_objective,
     train_set_name |-> <<>>,
     training_set_size |-> rec.computed_curve_train_sizes[n],
     train_score_mean |-> rec.learning_curve_train_scores_means[n],
     test_score_mean |-> rec.learning_curve_test_scores_means[n],
     fit_time_mean |-> rec.learning_curve_fit_times_means[n],
     train_score_std |-> rec.learning_curve_train_scores_stds[n],
     test_score_std |-> rec.learning_curve_test_scores_stds[n],
     fit_time_std |-> rec.learning_curve_fit_times_stds[n],
     scikit_learn_version |-> <<>>,
     version |-> rec.version]

(* C6: in a completed run of _write_learning_curve_file every record      *)
(* whose seven arrays have the same length n has exactly n rows, the rows *)
(* of the records standing in input order; its row of index x carries the *)
(* x-th element of each array and metric = grid_objective; when all       *)
(* records are of that kind the row count is the sum of the lengths.       *)
C6_OneRowPerSize ==
    (fn = "learning_curve" /\ pc = "done") =>
        /\ Len(Rows) = RowsBefore(Len(InputRecords) + 1)
        /\ \A x \in DOMAIN InputRecords :
              EqualLengths(InputRecords[x]) =>
                 /\ RowsBefore(x + 1)
                      = RowsBefore(x) + Len(InputRecords[x].computed_curve_train_sizes)
                 /\ \A n \in 1..Len(InputRecords[x].computed_curve_train_sizes) :
                       Rows[RowsBefore(x) + n] = PointRow(InputRecords[x], n)

C6_Witness ==
    /\ fn = "learning_curve"
    /\ pc = "done"
    /\ Len(result_json_paths) = 2
    /\ Len(InputRecords) >= 2
    /\ \A x \in DOMAIN InputRecords : EqualLengths(InputRecords[x])
    /\ \E x \in DOMAIN InputRecords :
          x > 1 /\ Len(InputRecords[x].computed_curve_train_sizes) >= 2

(* C7: _write_learning_curve_file raises on a record whose arrays differ  *)
(* in length: no row is ever written for such a record and no run that    *)
(* holds one completes.  The code fails this: zip stops at the shortest   *)
(* array and the run completes.                                            *)
C7_RaggedRecordRaises ==
    (fn = "learning_curve") =>
        /\ pc = "lc_row" => ~IsRagged(InputRecords[j])
        /\ pc = "done" => \A x \in DOMAIN InputRecords : ~IsRagged(InputRecords[x])

(* C8: a run of either aggregation that ends in an error has written      *)
(* nothing, neither the header nor a row.  The code fails this: the       *)
(* header is written before the records are looked at.                     *)
C8_NoOutputOnError ==
    (Aggregating /\ pc = "raised") => output_file = <<>>

(* ---- the melted score frame ---- *)
GroupValues(long, keycols, row, var) ==
    {long[x].value : x \in {y \in DOMAIN long :
                              /\ long[y].variable = var
                              /\ \A c \in keycols : long[y][c] = row[c]}}

GroupSize(long, keycols, row, var) ==
    Cardinality({y \in DOMAIN long :
                   /\ long[y].variable = var
                   /\ \A c \in keycols : long[y][c] = row[c]})

KeyNoMetric == {"featureset_name", "learner_name", "training_set_size"}
KeyWithMetric == KeyNoMetric \cup {"metric"}

OneRowPerPoint(wide) ==
    \A x, y \in DOMAIN wide :
        (\A c \in KeyWithMetric : wide[x][c] = wide[y][c]) => x = y

(* C9 as stated, on the wide tables that have one row per (featureset,    *)
(* learner, metric, size): the groups of the long table by                *)
(* (featureset_name, learner_name, training_set_size, variable) hold one  *)
(* value each, the train_score_mean or test_score_mean of the wide row.    *)
C9_RoundTripWithoutMetric ==
    (fn = "plots" /\ pc # "melt" /\ OneRowPerPoint(df)) =>
        \A x \in DOMAIN df : \A v \in Range(ValueVars) :
            GroupValues(df_score_melted, KeyNoMetric, df[x], v) = {df[x][v]}

(* C9 amended: for a wide table with one row per (featureset, learner,    *)
(* metric, size), several metrics per (featureset, learner, size)         *)
(* included, the groups of the long table by (featureset_name,            *)
(* learner_name, metric, training_set_size, variable) hold exactly one    *)
(* row each, whose value is the train_score_mean or test_score_mean of    *)
(* the wide row; the long table has two rows per wide row.                 *)
C9_RoundTripWithMetric ==
    (fn = "plots" /\ pc # "melt" /\ OneRowPerPoint(df)) =>
        /\ Len(df_score_melted) = 2 * Len(df)
        /\ \A x \in DOMAIN df : \A v \in Range(ValueVars) :
              /\ GroupSize(df_score_melted, KeyWithMetric, df[x], v) = 1
              /\ GroupValues(df_score_melted, KeyWithMetric, df[x], v) = {df[x][v]}

C9_Witness ==
    /\ fn = "plots"
    /\ pc # "melt"
    /\ Len(df) = 2
    /\ OneRowPerPoint(df)
    /\ df[1].training_set_size = df[2].training_set_size
    /\ df[1].metric # df[2].metric
    /\ df[1].train_score_mean # df[2].train_score_mean

(* ---- the axis limits ---- *)
NonNegativeMetric(long, m) ==
    \A x \in DOMAIN long :
        long[x].metric = m =>
            /\ long[x].value >= 0
            /\ long[x].train_score_std >= 0
            /\ long[x].test_score_std >= 0

(* C10: for every requested metric all of whose rows have score >= 0 and  *)
(* std >= 0, _compute_ylimits_for_featureset returns lower <= 0 and       *)
(* upper >= 0, and the second call on the same frame returns the bounds   *)
(* of the first.                                                           *)
C10_NonNegativeMetricLimits ==
    (fn = "plots" /\ ylimits # <<>>) =>
        /\ \A c \in DOMAIN ylimits : \A m \in DOMAIN ylimits[c] :
              NonNegativeMetric(df_score_melted, m) =>
                  (ylimits[c][m][1] <= 0 /\ ylimits[c][m][2] >= 0)
        /\ Len(ylimits) = 2 => ylimits[2] = ylimits[1]

C10_Witness ==
    /\ fn = "plots"
    /\ Len(ylimits) = 2
    /\ \E m \in DOMAIN ylimits[1] :
          /\ NonNegativeMetric(df_score_melted, m)
          /\ ylimits[1][m][1] = 0
          /\ ylimits[1][m][2] > 0

(* the mean -/+ std bands of the wide rows of a metric, in hundredths *)
BandLows(m) ==
    UNION {{df[x].train_score_mean - df[x].train_score_std,
            df[x].test_score_mean - df[x].test_score_std} :
              x \in {y \in DOMAIN df : df[y].metric = m}}

BandHighs(m) ==
    UNION {{df[x].train_score_mean + df[x].train_score_std,
            df[x].test_score_mean + df[x].test_score_std} :
              x \in {y \in DOMAIN df : df[y].metric = m}}

(* the whole numbers (in hundredths) next below and next above x *)
WholeBelow(x) == 100 * (CHOOSE n \in -5..5 : 100 * n <= x /\ x < 100 * (n + 1))
WholeAbove(x) == 100 * (CHOOSE n \in -5..5 : 100 * (n - 1) < x /\ x <= 100 * n)

(* C11: every mapping _compute_ylimits_for_featureset returns has exactly *)
(* the requested metrics as keys, and for each of them, with lo the least *)
(* (value - std) and hi the greatest (value + std) over its train and     *)
(* test rows, lower = max(lo - 0.1, floor(lo) - 0.05) if lo < 0 else 0    *)
(* and upper = min(hi + 0.1, ceil(hi) + 0.05) if hi > 0 else 0.            *)
C11_LimitsFromBands ==
    (fn = "plots") =>
        \A c \in DOMAIN ylimits :
            /\ DOMAIN ylimits[c] = Range(metrics)
            /\ \A m \in Range(metrics) :
                  LET lo == SetMin(BandLows(m))
                      hi == SetMax(BandHighs(m))
                  IN /\ ylimits[c][m][1] =
                          (IF lo < 0
                           THEN (IF lo - 10 >= WholeBelow(lo) - 5
                                 THEN lo - 10 ELSE WholeBelow(lo) - 5)
                           ELSE 0)
                     /\ ylimits[c][m][2] =
                          (IF hi > 0
                           THEN (IF hi + 10 <= WholeAbove(hi) + 5
                                 THEN hi + 10 ELSE WholeAbove(hi) + 5)
                           ELSE 0)

C11_Witness ==
    /\ fn = "plots"
    /\ ylimits # <<>>
    /\ Len(metrics) = 2
    /\ \E m \in Range(metrics) : ylimits[1][m] = <<0, 105>>
    /\ \E m \in Range(metrics) : ylimits[1][m][1] < 0

(* the requested metrics that no row of the wide table carries *)
MetricsWithoutRows == {m \in Range(metrics) : \A x \in DOMAIN df : df[x].metric # m}

(* C12: asked for a metric with no train and no test row,                 *)
(* _compute_ylimits_for_featureset ends in an error (the ValueError of    *)
(* np.min on an empty array) and returns no mapping, for that metric or   *)
(* for any other.                                                          *)
C12_EmptyMetricRaises ==
    (fn = "plots" /\ MetricsWithoutRows # {}) =>
        /\ ylimits = <<>>
        /\ pc # "done"
        /\ pc \notin {"melt", "ylimits"} => (pc = "raised" /\ exc = "ValueError")

C12_Witness ==
    /\ fn = "plots"
    /\ pc = "raised"
    /\ exc = "ValueError"
    /\ df # <<>>
    /\ metrics = <<"acc", "r2">>
    /\ MetricsWithoutRows = {"r2"}

(* C13: _write_summary_file writes the rows of the loaded records one by  *)
(* one in input order (files in path order, records in file order), equal *)
(* records included, and a completed run holds exactly one row per        *)
(* record; each row has one cell per header column, the record's value    *)
(* where the record has the field and the empty string where it lacks     *)
(* it, and the fields of the record outside the header leave no trace.     *)
C13_OneRowPerRecord ==
    (fn = "summary" /\ output_file # <<>>) =>
        /\ Len(Rows) <= Len(InputRecords)
        /\ pc = "done" => Len(Rows) = Len(InputRecords)
        /\ \A x \in DOMAIN Rows :
              /\ DOMAIN Rows[x] = Range(output_file[1])
              /\ \A h \in Range(output_file[1]) \ {"ablated_features"} :
                    Rows[x][h] = (IF h \in DOMAIN InputRecords[x]
                                  THEN InputRecords[x][h] ELSE <<>>)

C13_Witness ==
    /\ fn = "summary"
    /\ pc = "done"
    /\ ablation = 0
    /\ Len(result_json_paths) = 2
    /\ InputRecords = <<RecParent, RecNoFeatureset>>
    /\ Rows[2].featureset = <<>>

(* the features that the first records of all the files of the list give  *)
(* to parent p                                                             *)
FeedsParent(f, p) ==
    /\ f.kind = "ok"
    /\ f.obj # <<>>
    /\ {"featureset_name", "featureset"} \subseteq DOMAIN f.obj[1]
    /\ HasMarker(f.obj[1].featureset_name)
    /\ ParentSet(f.obj[1].featureset_name) = p

FinalFeatures ==
    [p \in ParentNames |->
        UNION {Range(yaml_load(result_json_paths[x].obj[1].featureset)) :
                 x \in {y \in DOMAIN result_json_paths :
                          FeedsParent(result_json_paths[y], p)}}]

(* C14: in every step of _write_summary_file under ablation the feature   *)
(* set of each parent only grows, and it changes in load steps only; a    *)
(* step that writes a row happens after the last file is loaded, leaves   *)
(* every feature set as it is, and writes as ablated_features the         *)
(* difference between the set collected from all the files of the list    *)
(* and the features of the record.                                         *)
C14_TwoPhaseAblation ==
    [][(fn = "summary" /\ ablation # 0) =>
          /\ \A p \in DOMAIN all_features : all_features[p] \subseteq all_features'[p]
          /\ all_features' # all_features => (pc = "load" /\ output_file = <<>>)
          /\ Len(output_file') > Len(output_file) =>
                /\ i = Len(result_json_paths) + 1
                /\ all_features' = all_features
                /\ pc = "rows" =>
                      /\ all_features = FinalFeatures
                      /\ output_file'[Len(output_file')].ablated_features =
                            AblatedFeatures(FinalFeatures, InputRecords[j])]_vars

C14_Witness ==
    /\ fn = "summary"
    /\ ablation = 1
    /\ pc = "done"
    /\ Len(result_json_paths) = 2
    /\ InputRecords = <<RecMinusF1, RecMinusF2>>
    /\ all_features[<<"A">>] = {"f1", "f2"}
    /\ Rows[1].ablated_features = json_dumps(<<"f1">>)
    /\ Rows[2].ablated_features = json_dumps(<<"f2">>)
====
